---- MODULE Spec2Model ----
(***************************************************************************)
(* Model of the time-slot allocation engine of Task-Scheduler:             *)
(* scheduler.py, _iter_study_slots and build_schedule.                     *)
(*                                                                         *)
(* A datetime is the number of minutes since 00:00 of the first day of a   *)
(* month of MonthLen days; a date is a day number Day(t).  One call of     *)
(* build_schedule is one behaviour: Init fixes the arguments, Setup is     *)
(* lines 52-100, the loop actions are one iteration each of the loops of   *)
(* lines 111-168, Return is lines 170-172.  A raised TypeError ends the    *)
(* call in pc = "error".  The window hours are the 0..23 of the caller     *)
(* (app.py) and the granularity is at most an hour, so that every day's    *)
(* while loop of _iter_study_slots ends.  config.py is not part of the     *)
(* sources: the configured granularity and default hours are those of the  *)
(* specification (30 minutes, 19 and 23).                                  *)
(*                                                                         *)
(* Spec and SpecAnyGranularity follow one call.  SpecTerminates follows    *)
(* either one call or one frame of the generator, statement by statement.  *)
(* SpecCramPair follows two calls on the same input, the first with cram   *)
(* mode off and the second with cram mode on, the first result being kept  *)
(* in reference for the comparison.                                        *)
(***************************************************************************)
EXTENDS Integers, Sequences, FiniteSets, TLC

VARIABLES
    BLOCK_MINUTES,        \* config.BLOCK_MINUTES, the slot granularity
    now,                  \* datetime.now() captured at line 52
    args,                 \* the arguments of the call other than parsed
    parsed,               \* ParsedInput: todos and fixed_events
    study_start_hour,     \* local, defaulted at line 64
    study_end_hour,       \* local, defaulted and normalized at lines 66-71
    effective_date,       \* local, lines 56-60
    max_minutes_per_day,  \* local, lines 77-79
    blocks,               \* local list of ScheduledBlock
    todos,                \* local, the sorted todo list of lines 94-97
    day_todo_minutes,     \* local dict date -> minutes
    todo_idx,             \* position of "for todo in todos"
    remaining,            \* local of the todo loop, line 112
    slot_idx,             \* position of "for slot_start in _iter_study_slots"
    pc,                   \* "start", "for_todo", "for_slot", "done", "error";
                          \* "generator" when only a generator frame runs
    gen,                  \* the frame of one _iter_study_slots generator
    reference             \* the result of an earlier call on the same input

vars == <<BLOCK_MINUTES, now, args, parsed, study_start_hour, study_end_hour,
          effective_date, max_minutes_per_day, blocks, todos,
          day_todo_minutes, todo_idx, remaining, slot_idx, pc, gen, reference>>

(***************************************************************************)
(* Values and calendar arithmetic                                          *)
(***************************************************************************)
None == 0 - 1000                 \* Python's None for the Optional[int] fields
MinutesPerDay == 1440
MonthLen == 30                   \* days of the modelled month
DEFAULT_STUDY_START_HOUR == 19
DEFAULT_STUDY_END_HOUR == 23

Day(t) == t \div MinutesPerDay                   \* datetime.date()
Hour(t) == (t % MinutesPerDay) \div 60           \* datetime.hour
DayOfMonth(t) == (Day(t) % MonthLen) + 1         \* datetime.day
Midnight(d) == d * MinutesPerDay                 \* datetime.combine(d, min.time())
Max(a, b) == IF a >= b THEN a ELSE b
Min(a, b) == IF a <= b THEN a ELSE b

(***************************************************************************)
(* _iter_study_slots, lines 10-31                                          *)
(***************************************************************************)
\* lines 29-31: the while loop of one day, started at t.  It yields t,
\* t + step, ... and stops at the first of them whose hour is not below
\* end_hour; DaySlotCount is the number of its iterations.
DaySlotCount(t, end_hour, step) ==
    CHOOSE n \in 0..MinutesPerDay :
        /\ Hour(t + n * step) >= end_hour
        /\ \A k \in 0..(n - 1) : Hour(t + k * step) < end_hour

\* A variant of DaySlotsFrom whose loop tests the hour after it yields.
DaySlotsFrom_TestAfterYield(t, end_hour, step) ==
    [k \in 1..(DaySlotCount(t, end_hour, step) + 1) |-> t + (k - 1) * step]

DaySlotsFrom(t, end_hour, step) ==
    [k \in 1..DaySlotCount(t, end_hour, step) |-> t + (k - 1) * step]

RECURSIVE IterDays(_, _, _, _, _, _)
IterDays(d, start_dt, ndays, start_hour, end_hour, step) ==
    IF d >= ndays THEN <<>>
    ELSE DaySlotsFrom(Midnight(Day(start_dt) + d) + start_hour * 60, end_hour, step)
         \o IterDays(d + 1, start_dt, ndays, start_hour, end_hour, step)

iter_study_slots(start_dt, ndays, start_hour, end_hour, step) ==
    IterDays(0, start_dt, ndays, start_hour, end_hour, step)

(***************************************************************************)
(* Stable sort by an integer key, as sorted() and list.sort() do           *)
(***************************************************************************)
RECURSIVE SortIdx(_, _)
SortIdx(S, keys) ==
    IF S = {} THEN <<>>
    ELSE LET m == CHOOSE i \in S : \A j \in S :
                     keys[i] < keys[j] \/ (keys[i] = keys[j] /\ i <= j)
         IN <<m>> \o SortIdx(S \ {m}, keys)

StableSort(seq, keys) ==
    LET p == SortIdx(DOMAIN seq, keys)
    IN [k \in DOMAIN seq |-> seq[p[k]]]

(***************************************************************************)
(* Pieces of build_schedule, lines 34-172                                  *)
(***************************************************************************)
\* lines 56-60: the start date is clamped to today
EffectiveDate(start_date, today) ==
    IF start_date = None THEN today ELSE Max(start_date, today)

\* lines 63-66: the window hours default to the configured ones
DefaultHour(hour, default) == IF hour = None THEN default ELSE hour

\* lines 69-71: an empty or inverted window becomes start+1, capped at 23
NormalizeEndHour(start_hour, end_hour) ==
    IF end_hour <= start_hour THEN Min(start_hour + 1, 23) ELSE end_hour

\* lines 77-79
MaxMinutesPerDay(max_hours_per_day) ==
    IF max_hours_per_day = None THEN None ELSE max_hours_per_day * 60

\* A variant of NormalizeEstimate that lets an estimate of zero stand.
NormalizeEstimate_NegativeOnly(minutes) ==
    IF minutes = None \/ minutes < 0 THEN 120 ELSE minutes

\* lines 82-85: a missing or non-positive estimate becomes 120
NormalizeEstimate(minutes) ==
    IF minutes = None \/ minutes <= 0 THEN 120 ELSE minutes

NormalizeTodos(ts) ==
    [i \in DOMAIN ts |->
        [ts[i] EXCEPT !.estimated_time_minutes = NormalizeEstimate(@)]]

\* A variant of FixedBlocks that keeps one block per distinct event.
FixedBlocks_Distinct(events) ==
    LET first == {i \in DOMAIN events : \A k \in 1..(i - 1) : events[k] # events[i]}
        keep == SortIdx(first, [i \in DOMAIN events |-> i])
    IN [n \in DOMAIN keep |->
           [title |-> events[keep[n]].title, start |-> events[keep[n]].start,
            end |-> events[keep[n]].end, kind |-> "fixed", task |-> 0]]

\* lines 88-91: one fixed block per fixed event.  The field task is not a
\* field of ScheduledBlock: it records the position in todos of the task a
\* block was appended for (0 for a fixed block).
FixedBlocks(events) ==
    [i \in DOMAIN events |->
        [title |-> events[i].title, start |-> events[i].start,
         end |-> events[i].end, kind |-> "fixed", task |-> 0]]

\* lines 94 and 97: comparing None with anything raises TypeError, and
\* sorting two or more elements compares every key at least once
SortRaises(ts) ==
    Len(ts) >= 2 /\ \E i \in DOMAIN ts : ts[i].priority = None

\* A variant of SortTodos without the second sort of line 97.
SortTodos_ByDeadline(ts) ==
    StableSort(ts, [i \in DOMAIN ts |-> ts[i].deadline])

\* A variant of SortTodos whose two passes are exchanged.
SortTodos_DeadlineLast(ts) ==
    LET byPriority == StableSort(ts, [i \in DOMAIN ts |-> ts[i].priority])
    IN StableSort(byPriority, [i \in DOMAIN ts |-> byPriority[i].deadline])

\* lines 94-97: stable sort by deadline, then stable sort by priority
SortTodos(ts) ==
    LET byDeadline == StableSort(ts, [i \in DOMAIN ts |-> ts[i].deadline])
    IN StableSort(byDeadline, [i \in DOMAIN ts |-> byDeadline[i].priority])

\* A variant of is_free that looks at the fixed blocks only.
is_free_FixedOnly(bs, start, end) ==
    \A i \in DOMAIN bs :
        bs[i].kind = "fixed" => (end <= bs[i].start \/ start >= bs[i].end)

\* A variant of is_free that only asks whether the start is inside a block.
is_free_StartOnly(bs, start, end) ==
    \A i \in DOMAIN bs : ~(bs[i].start <= start /\ start < bs[i].end)

\* lines 102-108
is_free(bs, start, end) ==
    \A i \in DOMAIN bs : end <= bs[i].start \/ start >= bs[i].end

\* A variant of Overdue with a strict comparison.
Overdue_Strict(deadline, t) == deadline < t

\* line 115
Overdue(deadline, t) == deadline <= t

\* line 125
PastDeadline(slot_start, deadline) == slot_start >= deadline

\* A variant of BudgetSpent with a strict comparison.
BudgetSpent_Negative(rem) == rem < 0

\* line 129
BudgetSpent(rem) == rem <= 0

\* lines 134-140: the capacity estimate of cram mode
\* lines 138-140: the slots of one scan are distinct
OccupiedMinutes(slots, bs, step) ==
    step * Cardinality({i \in DOMAIN slots : ~is_free(bs, slots[i], slots[i] + step)})

CramMinutes(todo, slot_start, bs, start_hour, end_hour, cap, step) ==
    LET num_of_days == DayOfMonth(todo.deadline) - DayOfMonth(slot_start) - 1
    IN num_of_days * cap
       + Max(end_hour - Hour(slot_start), 0) * 60
       + Max(Hour(todo.deadline) - start_hour, 0) * 60
       - OccupiedMinutes(
            iter_study_slots(slot_start, num_of_days + 2, start_hour, end_hour, step),
            bs, step)

\* line 133
CramApplies(cram, todo) == cram /\ todo.exam_or_not

\* line 135: int * None raises TypeError
CramRaises(cap) == cap = None

\* A variant of CramDefers that compares with the minutes not yet committed.
CramDefers_Remaining(minutes, todo) == minutes > remaining

\* line 141: compared with the task's whole estimate
CramDefers(minutes, todo) == minutes > todo.estimated_time_minutes

\* A variant of OverDailyCap that forgets the block about to be placed.
OverDailyCap_Used(used, step, cap) == used > cap

\* line 149
OverDailyCap(used, step, cap) == used + step > cap

\* dict.get(key, 0)
Get(d, key) == IF key \in DOMAIN d THEN d[key] ELSE 0

\* lines 166-168
AddMinutes(d, key, step) ==
    [k \in DOMAIN d \cup {key} |-> IF k = key THEN Get(d, key) + step ELSE d[k]]

\* lines 154-161
TodoBlock(todo, idx, slot_start, step) ==
    [title |-> todo.title, start |-> slot_start, end |-> slot_start + step,
     kind |-> "todo", task |-> idx]

\* A variant of SortBlocks that returns the list as it was built.
SortBlocks_AsBuilt(bs) == bs

\* line 171: list.sort is stable
SortBlocks(bs) == StableSort(bs, [i \in DOMAIN bs |-> bs[i].start])

(***************************************************************************)
(* The calls explored: four families of arguments, for the granularities G *)
(***************************************************************************)
TodayDay == 14                   \* the day number of today
MaxDays == 2                     \* the longest horizon, in days
MaxCapHours == 1                 \* the largest max_hours_per_day

ConfiguredBlockMinutes == 30     \* config.BLOCK_MINUTES
Granularities == {ConfiguredBlockMinutes, 45, 60}
T0 == Midnight(TodayDay)
NowTime == T0 + 19 * 60 + 10                     \* today 19:10
DOffGrid == T0 + 19 * 60 + 40                    \* today 19:40
DToday == T0 + 20 * 60                           \* today 20:00
DTomorrow == T0 + MinutesPerDay + 19 * 60 + 30   \* tomorrow 19:30
DFar == T0 + 3 * MinutesPerDay                   \* in three days, 00:00

Caps == {None} \cup (1..MaxCapHours)
Horizons == 1..MaxDays
StartDates == {None, TodayDay - 1, TodayDay + 1}

Todo(title, deadline, minutes, priority, exam) ==
    [title |-> title, deadline |-> deadline, estimated_time_minutes |-> minutes,
     priority |-> priority, exam_or_not |-> exam]

Event(title, start, end) == [title |-> title, start |-> start, end |-> end]

Args(ndays, start_date, cap, start_hour, end_hour, cram) ==
    [days |-> ndays, start_date |-> start_date, max_hours_per_day |-> cap,
     study_start_hour |-> start_hour, study_end_hour |-> end_hour,
     cram_or_not |-> cram]

CallAt(t, step, a, ts, es) ==
    [now |-> t, step |-> step, args |-> a, todos |-> ts, events |-> es]

Call(step, a, ts, es) == CallAt(NowTime, step, a, ts, es)

\* one task, every deadline, estimate and configuration
OneTaskCalls(G) ==
    {Call(g, Args(n, sd, cap, 19, 21, cram), <<Todo("A", dl, m, pr, ex)>>, <<>>) :
        g \in G, n \in Horizons, sd \in StartDates, cap \in Caps,
        cram \in BOOLEAN, dl \in {NowTime, DOffGrid, DToday, DTomorrow, DFar},
        m \in {0, 30, 45}, pr \in {None, 1}, ex \in BOOLEAN}

\* two tasks competing for the same slots
TwoTaskCalls(G) ==
    {Call(g, Args(MaxDays, None, cap, 19, 21, cram),
          <<Todo("A", dl1, m1, pr1, ex), Todo(t2, dl2, m2, pr2, FALSE)>>, <<>>) :
        g \in G, cap \in Caps, cram \in BOOLEAN,
        dl1 \in {NowTime, DOffGrid, DFar}, m1 \in {30, 45}, pr1 \in {None, 1, 2},
        ex \in BOOLEAN, t2 \in {"A", "B"}, dl2 \in {DOffGrid, DFar},
        m2 \in {30, 45}, pr2 \in {1, 2}}

\* fixed events: inside a slot, covering slots, overlapping one another,
\* beyond the horizon
Events ==
    {Event("E", T0 + 19 * 60 + 15, T0 + 19 * 60 + 50),
     Event("E", T0 + 19 * 60, T0 + 20 * 60),
     Event("F", T0 + 19 * 60 + 30, T0 + 20 * 60 + 30),
     Event("F", DFar + 5 * MinutesPerDay, DFar + 5 * MinutesPerDay + 60)}

EventLists ==
    {<<>>} \cup {<<e>> : e \in Events} \cup {<<e, f>> : e \in Events, f \in Events}

EventCalls(G) ==
    {Call(g, Args(n, None, cap, 19, 21, cram), <<Todo("A", DFar, 0, 1, ex)>>, es) :
        g \in G, n \in Horizons, cap \in Caps \cup {MaxCapHours + 1},
        cram \in BOOLEAN, ex \in BOOLEAN, es \in EventLists}

\* the daily window: absent, proper, empty and inverted hours
Hours == {None, 0, 19, 20, 22, 23}

WindowCalls(G) ==
    {Call(g, Args(n, None, cap, sh, eh, FALSE), <<Todo("A", dl, 60, 1, FALSE)>>, <<>>) :
        g \in G, n \in Horizons, cap \in Caps, sh \in Hours,
        eh \in Hours, dl \in {DOffGrid, DFar}}

\* two tasks around fixed events, the first one possibly deferred by cram mode
MixedCalls(G) ==
    {Call(g, Args(MaxDays, None, cap, 19, 21, cram),
          <<Todo("A", dl, m, 1, ex), Todo("B", DFar, 60, pr, FALSE)>>, es) :
        g \in G, cap \in Caps \cup {MaxCapHours + 1}, cram \in BOOLEAN,
        dl \in {DTomorrow, DFar}, m \in {30, 60}, ex \in BOOLEAN, pr \in {1, 2},
        es \in {<<>>,
                <<Event("F", DFar + 5 * MinutesPerDay, DFar + 5 * MinutesPerDay + 60),
                  Event("E", T0 + 20 * 60, T0 + 20 * 60 + 30)>>,
                <<Event("E", T0 + 19 * 60, T0 + 20 * 60),
                  Event("F", T0 + 19 * 60 + 30, T0 + 20 * 60 + 30)>>}}

\* three tasks in every order of priority and deadline
ThreeTaskCalls(G) ==
    {Call(g, Args(1, None, None, 19, 21, FALSE),
          <<Todo("A", dl1, 30, pr1, FALSE), Todo("B", dl2, 30, pr2, FALSE),
            Todo("C", dl3, 30, pr3, FALSE)>>, <<>>) :
        g \in G, dl1 \in {DOffGrid, DFar}, dl2 \in {DOffGrid, DFar},
        dl3 \in {DOffGrid, DFar}, pr1 \in {1, 2}, pr2 \in {1, 2}, pr3 \in {1, 2}}

\* estimates absent, negative, zero, below and above the default
EstimateCalls(G) ==
    {Call(g, Args(MaxDays, None, cap, 19, 21, FALSE),
          <<Todo("A", DFar, m, 1, FALSE), Todo("B", DFar, 30, 1, FALSE)>>,
          <<Event("E", T0 + 19 * 60, T0 + 20 * 60)>>) :
        g \in G, cap \in Caps, m \in {None, 0 - 30, 0, 1, 120, 150}}

Calls(G) ==
    OneTaskCalls(G) \cup TwoTaskCalls(G) \cup EventCalls(G) \cup WindowCalls(G)
        \cup MixedCalls(G) \cup ThreeTaskCalls(G) \cup EstimateCalls(G)

\* no generator frame is followed
NoGen == [pc |-> "idle"]

\* no earlier call
NoReference == [run |-> 0, blocks |-> <<>>]

InitFrom(calls) ==
    \E c \in calls :
        /\ gen = NoGen
        /\ reference = NoReference
        /\ BLOCK_MINUTES = c.step
        /\ now = c.now
        /\ args = c.args
        /\ parsed = [todos |-> c.todos, fixed_events |-> c.events]
        /\ study_start_hour = None
        /\ study_end_hour = None
        /\ effective_date = None
        /\ max_minutes_per_day = None
        /\ blocks = <<>>
        /\ todos = <<>>
        /\ day_todo_minutes = <<>>
        /\ todo_idx = 0
        /\ remaining = 0
        /\ slot_idx = 0
        /\ pc = "start"

InitWith(G) == InitFrom(Calls(G))

\* the configured granularity
Init == InitWith({ConfiguredBlockMinutes})

\* any granularity
InitAnyGranularity == InitWith(Granularities)

(***************************************************************************)
(* The call                                                                *)
(***************************************************************************)
Today == Day(now)                                        \* line 53
start_base == Midnight(effective_date)                   \* line 74
Slots ==                                                 \* lines 119-124
    iter_study_slots(start_base, args.days, study_start_hour, study_end_hour,
                     BLOCK_MINUTES)
todo == todos[todo_idx]
slot_start == Slots[slot_idx]
slot_end == slot_start + BLOCK_MINUTES                   \* line 143

\* lines 52-100
Setup ==
    /\ pc = "start"
    /\ effective_date' = EffectiveDate(args.start_date, Today)
    /\ study_start_hour' = DefaultHour(args.study_start_hour, DEFAULT_STUDY_START_HOUR)
    /\ study_end_hour' =
          NormalizeEndHour(study_start_hour',
                           DefaultHour(args.study_end_hour, DEFAULT_STUDY_END_HOUR))
    /\ max_minutes_per_day' = MaxMinutesPerDay(args.max_hours_per_day)
    /\ parsed' = [parsed EXCEPT !.todos = NormalizeTodos(@)]
    /\ blocks' = FixedBlocks(parsed.fixed_events)
    /\ IF SortRaises(parsed'.todos)
       THEN /\ pc' = "error"
            /\ UNCHANGED todos
       ELSE /\ pc' = "for_todo"
            /\ todos' = SortTodos(parsed'.todos)
    /\ todo_idx' = 1
    /\ UNCHANGED <<gen, reference>>
    /\ UNCHANGED <<BLOCK_MINUTES, now, args, day_todo_minutes, remaining, slot_idx>>

\* lines 111-116: an overdue todo is skipped
SkipOverdue ==
    /\ pc = "for_todo"
    /\ todo_idx <= Len(todos)
    /\ Overdue(todo.deadline, now)
    /\ remaining' = todo.estimated_time_minutes
    /\ todo_idx' = todo_idx + 1
    /\ UNCHANGED <<gen, reference>>
    /\ UNCHANGED <<BLOCK_MINUTES, now, args, parsed, study_start_hour, study_end_hour,
                   effective_date, max_minutes_per_day, blocks, todos,
                   day_todo_minutes, slot_idx, pc>>

\* lines 111-124: the slot scan of a todo begins
BeginScan ==
    /\ pc = "for_todo"
    /\ todo_idx <= Len(todos)
    /\ ~Overdue(todo.deadline, now)
    /\ remaining' = todo.estimated_time_minutes
    /\ slot_idx' = 1
    /\ pc' = "for_slot"
    /\ UNCHANGED <<gen, reference>>
    /\ UNCHANGED <<BLOCK_MINUTES, now, args, parsed, study_start_hour, study_end_hour,
                   effective_date, max_minutes_per_day, blocks, todos,
                   day_todo_minutes, todo_idx>>

EndScan ==
    /\ pc' = "for_todo"
    /\ todo_idx' = todo_idx + 1
    /\ UNCHANGED <<gen, reference>>
    /\ UNCHANGED <<BLOCK_MINUTES, now, args, parsed, study_start_hour, study_end_hour,
                   effective_date, max_minutes_per_day, blocks, todos,
                   day_todo_minutes, remaining, slot_idx>>

NextSlot ==
    /\ slot_idx' = slot_idx + 1
    /\ UNCHANGED <<gen, reference>>
    /\ UNCHANGED <<BLOCK_MINUTES, now, args, parsed, study_start_hour, study_end_hour,
                   effective_date, max_minutes_per_day, blocks, todos,
                   day_todo_minutes, todo_idx, remaining, pc>>

\* line 119: the generator is exhausted
SlotsExhausted ==
    /\ pc = "for_slot"
    /\ slot_idx > Len(Slots)
    /\ EndScan

\* lines 125-127
DeadlineBreak ==
    /\ pc = "for_slot"
    /\ slot_idx <= Len(Slots)
    /\ PastDeadline(slot_start, todo.deadline)
    /\ EndScan

\* lines 129-130
BudgetBreak ==
    /\ pc = "for_slot"
    /\ slot_idx <= Len(Slots)
    /\ ~PastDeadline(slot_start, todo.deadline)
    /\ BudgetSpent(remaining)
    /\ EndScan

\* the slot passes lines 125-130
Considered ==
    /\ pc = "for_slot"
    /\ slot_idx <= Len(Slots)
    /\ ~PastDeadline(slot_start, todo.deadline)
    /\ ~BudgetSpent(remaining)

\* lines 133-135 with no daily cap
CramRaise ==
    /\ Considered
    /\ CramApplies(args.cram_or_not, todo)
    /\ CramRaises(max_minutes_per_day)
    /\ pc' = "error"
    /\ UNCHANGED <<gen, reference>>
    /\ UNCHANGED <<BLOCK_MINUTES, now, args, parsed, study_start_hour, study_end_hour,
                   effective_date, max_minutes_per_day, blocks, todos,
                   day_todo_minutes, todo_idx, remaining, slot_idx>>

\* lines 133-141: the slot is deferred
CramDefer ==
    /\ Considered
    /\ CramApplies(args.cram_or_not, todo)
    /\ ~CramRaises(max_minutes_per_day)
    /\ CramDefers(CramMinutes(todo, slot_start, blocks, study_start_hour,
                              study_end_hour, max_minutes_per_day, BLOCK_MINUTES),
                  todo)
    /\ NextSlot

\* the slot passes lines 133-141
PastCram ==
    /\ Considered
    /\ \/ ~CramApplies(args.cram_or_not, todo)
       \/ /\ ~CramRaises(max_minutes_per_day)
          /\ ~CramDefers(CramMinutes(todo, slot_start, blocks, study_start_hour,
                                     study_end_hour, max_minutes_per_day,
                                     BLOCK_MINUTES),
                         todo)

CapReached ==
    /\ max_minutes_per_day # None
    /\ OverDailyCap(Get(day_todo_minutes, Day(slot_start)), BLOCK_MINUTES,
                    max_minutes_per_day)

\* A variant of CapSkip that leaves the slot loop at the first full day.
CapSkip_Break ==
    /\ PastCram
    /\ CapReached
    /\ EndScan

\* lines 146-151
CapSkip ==
    /\ PastCram
    /\ CapReached
    /\ NextSlot

\* line 153, not free
Occupied ==
    /\ PastCram
    /\ ~CapReached
    /\ ~is_free(blocks, slot_start, slot_end)
    /\ NextSlot

\* lines 153-168
Commit ==
    /\ PastCram
    /\ ~CapReached
    /\ is_free(blocks, slot_start, slot_end)
    /\ blocks' = Append(blocks, TodoBlock(todo, todo_idx, slot_start, BLOCK_MINUTES))
    /\ remaining' = remaining - BLOCK_MINUTES
    /\ day_todo_minutes' =
          IF max_minutes_per_day # None
          THEN AddMinutes(day_todo_minutes, Day(slot_start), BLOCK_MINUTES)
          ELSE day_todo_minutes
    /\ slot_idx' = slot_idx + 1
    /\ UNCHANGED <<gen, reference>>
    /\ UNCHANGED <<BLOCK_MINUTES, now, args, parsed, study_start_hour, study_end_hour,
                   effective_date, max_minutes_per_day, todos, todo_idx, pc>>

\* lines 170-172
Return ==
    /\ pc = "for_todo"
    /\ todo_idx > Len(todos)
    /\ blocks' = SortBlocks(blocks)
    /\ pc' = "done"
    /\ UNCHANGED <<gen, reference>>
    /\ UNCHANGED <<BLOCK_MINUTES, now, args, parsed, study_start_hour, study_end_hour,
                   effective_date, max_minutes_per_day, todos, day_todo_minutes,
                   todo_idx, remaining, slot_idx>>

Next ==
    \/ Setup
    \/ SkipOverdue
    \/ BeginScan
    \/ SlotsExhausted
    \/ DeadlineBreak
    \/ BudgetBreak
    \/ CramRaise
    \/ CramDefer
    \/ CapSkip
    \/ Occupied
    \/ Commit
    \/ Return

Spec == Init /\ [][Next]_vars

SpecAnyGranularity == InitAnyGranularity /\ [][Next]_vars

(***************************************************************************)
(* The same input scheduled twice: cram mode off, then cram mode on        *)
(***************************************************************************)
\* the last day of the modelled month, 19:10
MonthEndNow == Midnight(MonthLen - 1) + 19 * 60 + 10

\* one exam task; the deadlines and the event are relative to the call's
\* today: overdue, tomorrow 19:30, in two days 20:00, in three days 00:00
CramCallsAt(t) ==
    {CallAt(t, ConfiguredBlockMinutes, Args(n, None, cap, 19, 21, FALSE),
            <<Todo("A", dl, m, 1, TRUE)>>, es) :
        n \in {MaxDays, MaxDays + 1},
        cap \in Caps \cup {MaxCapHours + 1}, m \in {30, 60, 120},
        dl \in {t, Midnight(Day(t) + 1) + 19 * 60 + 30,
                Midnight(Day(t) + 2) + 20 * 60, Midnight(Day(t) + 3)},
        es \in {<<>>, <<Event("E", Midnight(Day(t)) + 20 * 60,
                              Midnight(Day(t)) + 20 * 60 + 30)>>}}

CramCalls == CramCallsAt(NowTime) \cup CramCallsAt(MonthEndNow)

InitCramPair == InitFrom(CramCalls)

\* app.py calls build_schedule again on the same parsed input, the cram
\* checkbox now ticked; the result of the first call is kept for comparison
Rerun ==
    /\ pc = "done"
    /\ reference.run = 0
    /\ ~args.cram_or_not
    /\ reference' = [run |-> 1, blocks |-> blocks]
    /\ args' = [args EXCEPT !.cram_or_not = TRUE]
    /\ study_start_hour' = None
    /\ study_end_hour' = None
    /\ effective_date' = None
    /\ max_minutes_per_day' = None
    /\ blocks' = <<>>
    /\ todos' = <<>>
    /\ day_todo_minutes' = <<>>
    /\ todo_idx' = 0
    /\ remaining' = 0
    /\ slot_idx' = 0
    /\ pc' = "start"
    /\ UNCHANGED <<gen, BLOCK_MINUTES, now, parsed>>

NextCramPair ==
    \/ Next
    \/ Rerun

SpecCramPair == InitCramPair /\ [][NextCramPair]_vars

(***************************************************************************)
(* One frame of the generator _iter_study_slots, statement by statement    *)
(***************************************************************************)
\* lines 21-27: the first candidate of day d
DayStart(start_dt, d, start_hour) == Midnight(Day(start_dt) + d) + start_hour * 60

\* A variant of WhileTest that lets the end hour itself pass.
WhileTest_Inclusive(day, end_hour) == Hour(day) <= end_hour

\* line 29
WhileTest(day, end_hour) == Hour(day) < end_hour

\* the most slots followed in one frame, more than any window of the
\* modelled hours holds
SlotLimit(ndays, step) == (Max(ndays, 0) + 1) * (MinutesPerDay \div step)

GenFrame(start_dt, ndays, start_hour, end_hour, step) ==
    [start_dt |-> start_dt, days |-> ndays, study_start_hour |-> start_hour,
     study_end_hour |-> end_hour, step |-> step,
     d |-> 0, day |-> None, out |-> <<>>, pc |-> "for"]

\* line 20, one more day
GenNextDay ==
    /\ gen.pc = "for"
    /\ gen.d < gen.days
    /\ gen' = [gen EXCEPT !.day = DayStart(gen.start_dt, gen.d, gen.study_start_hour),
                          !.pc = "while"]
    /\ UNCHANGED <<BLOCK_MINUTES, now, args, parsed, study_start_hour, study_end_hour,
                   effective_date, max_minutes_per_day, blocks, todos,
                   day_todo_minutes, todo_idx, remaining, slot_idx, pc, reference>>

\* line 20, range(days) is exhausted: the generator returns
GenReturn ==
    /\ gen.pc = "for"
    /\ gen.d >= gen.days
    /\ gen' = [gen EXCEPT !.pc = "end"]
    /\ UNCHANGED <<BLOCK_MINUTES, now, args, parsed, study_start_hour, study_end_hour,
                   effective_date, max_minutes_per_day, blocks, todos,
                   day_todo_minutes, todo_idx, remaining, slot_idx, pc, reference>>

\* lines 29-31: one slot is yielded and the candidate advances
GenYield ==
    /\ gen.pc = "while"
    /\ WhileTest(gen.day, gen.study_end_hour)
    /\ Len(gen.out) < SlotLimit(gen.days, gen.step)
    /\ gen' = [gen EXCEPT !.out = Append(@, gen.day), !.day = @ + gen.step]
    /\ UNCHANGED <<BLOCK_MINUTES, now, args, parsed, study_start_hour, study_end_hour,
                   effective_date, max_minutes_per_day, blocks, todos,
                   day_todo_minutes, todo_idx, remaining, slot_idx, pc, reference>>

\* line 29: the day's while loop ends
GenDayEnd ==
    /\ gen.pc = "while"
    /\ ~WhileTest(gen.day, gen.study_end_hour)
    /\ gen' = [gen EXCEPT !.d = @ + 1, !.pc = "for"]
    /\ UNCHANGED <<BLOCK_MINUTES, now, args, parsed, study_start_hour, study_end_hour,
                   effective_date, max_minutes_per_day, blocks, todos,
                   day_todo_minutes, todo_idx, remaining, slot_idx, pc, reference>>

\* the frames followed: anchors at midnight and inside a day, as lines
\* 119-124 and line 138 pass them, empty and negative horizons included
GenFrames ==
    {GenFrame(a, n, sh, eh, g) :
        a \in {T0, NowTime}, n \in (0 - 1)..MaxDays, sh \in Hours \ {None},
        eh \in Hours \ {None}, g \in Granularities}

InitGen ==
    /\ gen \in GenFrames
    /\ reference = NoReference
    /\ BLOCK_MINUTES = gen.step
    /\ now = NowTime
    /\ args = Args(gen.days, None, None, gen.study_start_hour, gen.study_end_hour, FALSE)
    /\ parsed = [todos |-> <<>>, fixed_events |-> <<>>]
    /\ study_start_hour = None
    /\ study_end_hour = None
    /\ effective_date = None
    /\ max_minutes_per_day = None
    /\ blocks = <<>>
    /\ todos = <<>>
    /\ day_todo_minutes = <<>>
    /\ todo_idx = 0
    /\ remaining = 0
    /\ slot_idx = 0
    /\ pc = "generator"

NextGen ==
    \/ GenNextDay
    \/ GenReturn
    \/ GenYield
    \/ GenDayEnd

\* a behaviour is one generator frame or one call of build_schedule
NextTerminates ==
    \/ NextGen
    \/ Next

\* A frame is resumed whenever its consumer's for statement asks for the
\* next slot, and the consumers (lines 119 and 138) ask until the frame
\* returns: weak fairness of the frame's steps.
SpecTerminates ==
    /\ InitGen \/ Init
    /\ [][NextTerminates]_vars
    /\ WF_vars(NextGen)

(***************************************************************************)
(* Vocabulary of the claims                                                *)
(***************************************************************************)
Started == pc \in {"for_todo", "for_slot", "done"}
TodoIdx == {i \in DOMAIN blocks : blocks[i].kind = "todo"}
FixedIdx == {i \in DOMAIN blocks : blocks[i].kind = "fixed"}
Length(b) == b.end - b.start
Intersect(a, b) == Max(a.start, b.start) < Min(a.end, b.end)

RECURSIVE SumLength(_)
SumLength(S) ==
    IF S = {} THEN 0
    ELSE LET i == CHOOSE i \in S : TRUE
         IN Length(blocks[i]) + SumLength(S \ {i})

RECURSIVE SumOver(_, _)
SumOver(S, f) ==
    IF S = {} THEN 0
    ELSE LET i == CHOOSE i \in S : TRUE
         IN f[i] + SumOver(S \ {i}, f)

TitleMinutes(title) == SumLength({i \in TodoIdx : blocks[i].title = title})
DayMinutes(d) == SumLength({i \in TodoIdx : Day(blocks[i].start) = d})
RoundUp(m, step) == ((m + step - 1) \div step) * step

(***************************************************************************)
(* C1: in the returned list no two blocks, fixed or flexible, have         *)
(* intersecting intervals [start, end).                                    *)
(***************************************************************************)
C1_NoTwoBlocksOverlap ==
    pc = "done" =>
        \A i, j \in DOMAIN blocks : i # j => ~Intersect(blocks[i], blocks[j])

\* C1 as amended: a flexible block intersects no other block, in every
\* state of the run; two fixed blocks intersect exactly when the caller's
\* events do.
C1_FlexibleBlocksOverlapNothing ==
    /\ \A i \in TodoIdx : \A j \in DOMAIN blocks :
          i # j => ~Intersect(blocks[i], blocks[j])
    /\ pc = "done" =>
          ((\E i, j \in FixedIdx : i # j /\ Intersect(blocks[i], blocks[j]))
           <=> (\E i, j \in DOMAIN parsed.fixed_events :
                   i # j /\ Intersect(parsed.fixed_events[i], parsed.fixed_events[j])))

\* a flexible block placed right after a fixed block that covers two slots,
\* and one placed between two fixed blocks that overlap each other
C1_Witness ==
    /\ pc = "done"
    /\ \E i, j \in FixedIdx : i # j /\ Intersect(blocks[i], blocks[j])
    /\ \E i \in FixedIdx : \E j \in TodoIdx : blocks[j].start = blocks[i].end
    /\ Cardinality(TodoIdx) >= 2

(***************************************************************************)
(* C2: every flexible block ends at or before the deadline of the task it  *)
(* was placed for, also when the deadline is off the slot grid.            *)
(***************************************************************************)
C2_BlocksEndByDeadline ==
    \A i \in TodoIdx : blocks[i].end <= todos[blocks[i].task].deadline

(***************************************************************************)
(* C3: for every task title the flexible minutes carrying that title never *)
(* exceed that task's normalized estimated duration, after every commit.   *)
(***************************************************************************)
C3_TitleMinutesWithinEstimate ==
    Started =>
        \A k \in DOMAIN todos :
            TitleMinutes(todos[k].title) <= todos[k].estimated_time_minutes

\* C3 as amended: the minutes carrying a title never exceed the sum, over
\* the tasks with that title, of the estimate rounded up to whole slots; and
\* the minutes placed for one task never exceed its estimate rounded up.
C3_MinutesWithinRoundedEstimate ==
    Started =>
        /\ \A k \in DOMAIN todos :
              TitleMinutes(todos[k].title) <=
                  SumOver({m \in DOMAIN todos : todos[m].title = todos[k].title},
                          [m \in DOMAIN todos |->
                              RoundUp(todos[m].estimated_time_minutes, BLOCK_MINUTES)])
        /\ \A k \in DOMAIN todos :
              SumLength({i \in TodoIdx : blocks[i].task = k}) <=
                  RoundUp(todos[k].estimated_time_minutes, BLOCK_MINUTES)

\* two tasks share a title, one estimate is no multiple of the granularity,
\* and the title carries more minutes than either estimate
C3_Witness ==
    /\ pc = "done"
    /\ \E k, m \in DOMAIN todos :
          /\ k # m
          /\ todos[k].title = todos[m].title
          /\ todos[k].estimated_time_minutes % BLOCK_MINUTES # 0
          /\ TitleMinutes(todos[k].title) > todos[k].estimated_time_minutes
          /\ TitleMinutes(todos[k].title) > todos[m].estimated_time_minutes
          /\ \E i \in TodoIdx : blocks[i].task = k
          /\ \E i \in TodoIdx : blocks[i].task = m

(***************************************************************************)
(* C4: every flexible block has its start and its end inside               *)
(* [midnight of the effective start date, that midnight + horizon days)    *)
(* and inside the daily window [start hour:00, end hour:00] of the day of  *)
(* its start, for every horizon, window and slot granularity.              *)
(***************************************************************************)
InHorizon(t) ==
    start_base <= t /\ t < start_base + args.days * MinutesPerDay

InWindow(b) ==
    /\ Midnight(Day(b.start)) + study_start_hour * 60 <= b.start
    /\ b.end <= Midnight(Day(b.start)) + study_end_hour * 60

C4_BlocksInHorizonAndWindow ==
    \A i \in TodoIdx :
        InHorizon(blocks[i].start) /\ InHorizon(blocks[i].end) /\ InWindow(blocks[i])

\* C4 as amended: for every granularity up to an hour a flexible block lies
\* inside the horizon and starts inside the daily window; it also ends
\* inside the window when the granularity divides 60, and otherwise ends
\* less than one granularity after the window's end hour
C4_BlocksInHorizonStartInWindow ==
    \A i \in TodoIdx :
        LET b == blocks[i]
            window_end == Midnight(Day(b.start)) + study_end_hour * 60
        IN /\ InHorizon(b.start) /\ InHorizon(b.end)
           /\ Midnight(Day(b.start)) + study_start_hour * 60 <= b.start
           /\ b.start < window_end
           /\ b.end < window_end + BLOCK_MINUTES
           /\ 60 % BLOCK_MINUTES = 0 => InWindow(b)

\* a horizon that starts after today: one block ends exactly at the window's
\* end hour and one lies on the last day of the horizon
C4_Witness ==
    /\ pc = "done"
    /\ 60 % BLOCK_MINUTES = 0
    /\ effective_date > Today
    /\ args.days > 1
    /\ \E i \in TodoIdx :
          blocks[i].end = Midnight(Day(blocks[i].start)) + study_end_hour * 60
    /\ \E i \in TodoIdx : Day(blocks[i].start) = effective_date + args.days - 1

(***************************************************************************)
(* C5: with a daily capacity configured, in every state the flexible       *)
(* minutes that start on one day never exceed the capacity; fixed events   *)
(* of that day do not count.                                               *)
(***************************************************************************)
C5_DailyCapRespected ==
    max_minutes_per_day # None =>
        \A i \in TodoIdx : DayMinutes(Day(blocks[i].start)) <= max_minutes_per_day

\* a day whose flexible minutes reach the cap and that also holds a fixed
\* event
C5_Witness ==
    /\ pc = "done"
    /\ max_minutes_per_day # None
    /\ \E i \in TodoIdx : \E j \in FixedIdx :
          /\ Day(blocks[i].start) = Day(blocks[j].start)
          /\ DayMinutes(Day(blocks[i].start)) = max_minutes_per_day
          /\ Length(blocks[j]) > 0

(***************************************************************************)
(* C6: a task whose deadline is at or before the captured now gets no      *)
(* flexible block, whatever the configuration.                             *)
(***************************************************************************)
C6_OverdueGetsNoBlock ==
    \A i \in TodoIdx : todos[blocks[i].task].deadline > now

\* an overdue task was passed over while another task of the same title
\* received blocks
C6_Witness ==
    /\ pc = "done"
    /\ \E k, m \in DOMAIN todos :
          /\ todos[k].deadline = now
          /\ todos[k].title = todos[m].title
          /\ \E i \in TodoIdx : blocks[i].task = m
          /\ ~\E i \in TodoIdx : blocks[i].task = k

(***************************************************************************)
(* C7: the blocks hold exactly one fixed block per fixed event, with the   *)
(* event's title, start and end, from the seeding to the returned list.    *)
(***************************************************************************)
AsEvent(b) == [title |-> b.title, start |-> b.start, end |-> b.end]

C7_FixedBlocksAreTheEvents ==
    Started =>
        /\ Cardinality(FixedIdx) = Len(parsed.fixed_events)
        /\ \A i \in FixedIdx :
              Cardinality({j \in FixedIdx : AsEvent(blocks[j]) = AsEvent(blocks[i])})
              = Cardinality({k \in DOMAIN parsed.fixed_events :
                                parsed.fixed_events[k] = AsEvent(blocks[i])})

\* the same event given twice, beyond the horizon, returned together with
\* flexible blocks
C7_Witness ==
    /\ pc = "done"
    /\ TodoIdx # {}
    /\ \E i, j \in FixedIdx :
          /\ i # j
          /\ AsEvent(blocks[i]) = AsEvent(blocks[j])
          /\ ~InHorizon(blocks[i].start)

(***************************************************************************)
(* C8: no block is committed for a task while a non-overdue task with a    *)
(* smaller priority number has not finished its slot scan.                 *)
(***************************************************************************)
C8_SmallerPriorityNumberFirst ==
    \A i \in TodoIdx : \A k \in DOMAIN todos :
        (/\ todos[k].priority # None
         /\ todos[blocks[i].task].priority # None
         /\ todos[k].priority < todos[blocks[i].task].priority
         /\ ~Overdue(todos[k].deadline, now))
        => todo_idx > k

\* the second task of the input has the smaller priority number and the
\* later deadline, and it holds the first slot
C8_Witness ==
    /\ pc = "done"
    /\ Len(parsed.todos) = 2
    /\ parsed.todos[2].priority < parsed.todos[1].priority
    /\ parsed.todos[2].deadline > parsed.todos[1].deadline
    /\ \E i, j \in TodoIdx :
          /\ blocks[i].title = parsed.todos[2].title
          /\ blocks[j].title = parsed.todos[1].title
          /\ blocks[i].title # blocks[j].title
          /\ blocks[i].start < blocks[j].start
          /\ \A n \in TodoIdx : blocks[i].start <= blocks[n].start

(***************************************************************************)
(* C9: build_schedule never ends in an error, for every well-typed input:  *)
(* priority absent on some tasks, no daily capacity, cram mode on or off.  *)
(***************************************************************************)
C9_NeverRaises == pc # "error"

(***************************************************************************)
(* C10: when the supplied end hour is not after the supplied start hour,   *)
(* the slots of every horizon day are exactly the slots of the one hour    *)
(* that begins at the start hour, for every start hour in 0..23.           *)
(***************************************************************************)
SlotSet == {Slots[i] : i \in DOMAIN Slots}

OneHourSlots ==
    {Midnight(effective_date + d) + study_start_hour * 60 + k * BLOCK_MINUTES :
        d \in 0..(args.days - 1), k \in 0..(59 \div BLOCK_MINUTES)}

C10_InvalidWindowIsOneHour ==
    (/\ Started
     /\ args.study_start_hour # None
     /\ args.study_end_hour # None
     /\ args.study_end_hour <= args.study_start_hour)
    => (SlotSet = OneHourSlots /\ SlotSet # {})

(***************************************************************************)
(* C11: the slot generator and termination                                 *)
(***************************************************************************)
GenRuns == gen.pc # "idle"

\* the slots yielded so far ascend strictly
GenAscending == \A i, j \in DOMAIN gen.out : i < j => gen.out[i] < gen.out[j]

\* the slots yielded so far lie on the days anchor .. anchor + days - 1
GenOnHorizonDays ==
    \A i \in DOMAIN gen.out :
        /\ Day(gen.out[i]) >= Day(gen.start_dt)
        /\ Day(gen.out[i]) <= Day(gen.start_dt) + gen.days - 1

\* the returned frame has yielded the sequence that the scans of
\* build_schedule iterate over
GenYieldsTheSlots ==
    gen.pc = "end" =>
        gen.out = iter_study_slots(gen.start_dt, gen.days, gen.study_start_hour,
                                   gen.study_end_hour, gen.step)

Terminated == pc \in {"done", "error"}

\* how far a call has come: the todo and the slot of its two loops
Position ==
    <<IF pc = "start" THEN 0 ELSE IF Terminated THEN 2 ELSE 1, todo_idx,
      IF pc = "for_slot" THEN slot_idx ELSE 0>>

Before(p, q) ==
    \/ p[1] < q[1]
    \/ p[1] = q[1] /\ p[2] < q[2]
    \/ p[1] = q[1] /\ p[2] = q[2] /\ p[3] < q[3]

\* the positions are bounded by the todo list and the slots of the horizon
PositionBounded ==
    /\ todo_idx <= Len(todos) + 1
    /\ pc = "for_slot" => slot_idx <= Len(Slots) + 1

\* C11: every frame of the slot generator yields finitely many slots, in
\* strictly ascending order and all on one of the days of its horizon, and
\* returns; the sequence is the one that the main scan and the cram-mode
\* occupancy scan of build_schedule iterate over, and every call of
\* build_schedule terminates: each of its steps advances a position that
\* the todo list and the slots bound.
C11_GeneratorFiniteAscendingCallsTerminate ==
    /\ [](GenRuns => GenAscending /\ GenOnHorizonDays /\ GenYieldsTheSlots)
    /\ <>(GenRuns => gen.pc = "end")
    /\ [](~GenRuns => PositionBounded)
    /\ [][~GenRuns => Before(Position, Position')]_vars

\* a frame anchored inside a day has returned after yielding slots on the
\* first and on the last day of a two-day horizon
C11_Witness ==
    /\ GenRuns
    /\ gen.pc = "end"
    /\ gen.start_dt = NowTime
    /\ gen.days = MaxDays
    /\ \E i, j \in DOMAIN gen.out :
          /\ Day(gen.out[i]) = Day(gen.start_dt)
          /\ Day(gen.out[j]) = Day(gen.start_dt) + gen.days - 1
          /\ gen.out[j] = gen.out[i] + (gen.days - 1) * MinutesPerDay

(***************************************************************************)
(* C12: the order of the returned list                                     *)
(***************************************************************************)
\* C12: in the returned list the start times never decrease, over fixed
\* and flexible blocks together, whatever the order of the fixed events
\* and the order in which the tasks were processed.
C12_ResultOrderedByStart ==
    pc = "done" =>
        \A i, j \in DOMAIN blocks : i < j => blocks[i].start <= blocks[j].start

\* returned: the fixed events came latest first, a flexible block stands
\* before a fixed one, and a block of the task processed second stands
\* before a block of the task processed first
C12_Witness ==
    /\ pc = "done"
    /\ Len(parsed.fixed_events) = 2
    /\ parsed.fixed_events[1].start > parsed.fixed_events[2].start
    /\ \E i \in TodoIdx, j \in FixedIdx : i < j
    /\ \E i, j \in TodoIdx : i < j /\ blocks[i].task > blocks[j].task

(***************************************************************************)
(* C13: cram mode on against cram mode off                                 *)
(***************************************************************************)
\* the second call of a pair has returned
PairDone == pc = "done" /\ reference.run = 1

IsTodoBlock(b) == b.kind = "todo"
OnBlocks == SelectSeq(blocks, IsTodoBlock)              \* placed with cram on
OffBlocks == SelectSeq(reference.blocks, IsTodoBlock)   \* placed with cram off
OnMinutes == BLOCK_MINUTES * Len(OnBlocks)
OffMinutes == BLOCK_MINUTES * Len(OffBlocks)
OffDayMinutes(d) ==
    BLOCK_MINUTES * Cardinality({k \in DOMAIN OffBlocks : Day(OffBlocks[k].start) = d})

\* one exam task, not overdue
SingleExamTask ==
    /\ Len(todos) = 1
    /\ todos[1].exam_or_not
    /\ ~Overdue(todos[1].deadline, now)

\* the k-th block with cram on starts no earlier than the k-th with cram off
KthBlockNoEarlier ==
    \A k \in DOMAIN OnBlocks \cap DOMAIN OffBlocks :
        OnBlocks[k].start >= OffBlocks[k].start

\* with cram off every slot before a block of the task is taken by the
\* task, overlapped by a fixed block, or on a day at its cap
OffTakesEarliest ==
    \A k \in DOMAIN OffBlocks : \A i \in DOMAIN Slots :
        Slots[i] < OffBlocks[k].start =>
            \/ \E j \in DOMAIN OffBlocks : OffBlocks[j].start = Slots[i]
            \/ \E j \in FixedIdx :
                  Intersect(blocks[j], [start |-> Slots[i],
                                        end |-> Slots[i] + BLOCK_MINUTES])
            \/ /\ max_minutes_per_day # None
               /\ OffDayMinutes(Day(Slots[i])) + BLOCK_MINUTES > max_minutes_per_day

\* the deadline is at least two days after the first day, nothing is fixed
\* and the daily cap is at least twice the task's duration
AmpleEarlyCapacity ==
    /\ parsed.fixed_events = <<>>
    /\ max_minutes_per_day # None
    /\ Day(todos[1].deadline) >= effective_date + 2
    /\ max_minutes_per_day >= 2 * todos[1].estimated_time_minutes

\* no block on the first day, every block on the deadline's day or the
\* day before it
OnBlocksNearDeadline ==
    \A k \in DOMAIN OnBlocks :
        /\ Day(OnBlocks[k].start) # effective_date
        /\ Day(OnBlocks[k].start) >= Day(todos[1].deadline) - 1

\* C13 as claimed: for one exam task that is not overdue, the k-th block
\* placed with cram mode on starts no earlier than the k-th block placed
\* with cram mode off, cram mode off takes the earliest free slots within
\* the cap, and with ample early capacity cram mode on places nothing on
\* the first day and everything on the days nearest the deadline.
C13_CramDefersTowardsDeadline ==
    PairDone /\ SingleExamTask =>
        /\ KthBlockNoEarlier
        /\ OffTakesEarliest
        /\ AmpleEarlyCapacity => OnBlocksNearDeadline

\* the same within one calendar month
CramDefersWithinOneMonth ==
    PairDone /\ SingleExamTask /\ now = NowTime =>
        /\ KthBlockNoEarlier
        /\ OffTakesEarliest
        /\ AmpleEarlyCapacity => OnBlocksNearDeadline

(***************************************************************************)
(* C14: the deferral test of cram mode                                     *)
(***************************************************************************)
\* a slot of an exam task has passed lines 125-130 in cram mode, with a cap
CramConsidered ==
    /\ Considered
    /\ CramApplies(args.cram_or_not, todo)
    /\ max_minutes_per_day # None

\* lines 134-140 at the current slot
Estimate ==
    CramMinutes(todo, slot_start, blocks, study_start_hour, study_end_hour,
                max_minutes_per_day, BLOCK_MINUTES)

\* nothing but the deferral test can refuse the current slot
SlotPlaceable == ~CapReached /\ is_free(blocks, slot_start, slot_end)

\* C14 as claimed: a placeable slot of an exam task is skipped in cram mode
\* exactly when the capacity estimate exceeds the minutes of the task that
\* are not yet committed.
C14_DefersAgainstRemaining ==
    [][CramConsidered /\ SlotPlaceable =>
          ((blocks' = blocks) <=> (Estimate > remaining))]_vars

\* C14: a placeable slot of an exam task is skipped in cram mode exactly
\* when the capacity estimate is strictly greater than the task's whole
\* estimated duration, however much of it is committed already.
C14_DefersAgainstWholeEstimate ==
    [][CramConsidered /\ SlotPlaceable =>
          ((blocks' = blocks) <=> (Estimate > todo.estimated_time_minutes))]_vars

\* a placeable slot whose estimate lies between the uncommitted minutes
\* and the whole estimate of a partly committed task
C14_Witness ==
    /\ CramConsidered
    /\ SlotPlaceable
    /\ remaining < todo.estimated_time_minutes
    /\ Estimate > remaining
    /\ Estimate <= todo.estimated_time_minutes

(***************************************************************************)
(* C15: without cram mode no usable slot is left to an unfinished task     *)
(***************************************************************************)
TaskMinutes(k) == SumLength({i \in TodoIdx : blocks[i].task = k})

\* the task is not overdue and has fewer minutes than its estimate
Unfinished(k) ==
    /\ ~Overdue(todos[k].deadline, now)
    /\ TaskMinutes(k) < todos[k].estimated_time_minutes

\* the slot is overlapped by a block or lies on a day at its cap
SlotUnusable(t) ==
    \/ \E j \in DOMAIN blocks :
          Intersect(blocks[j], [start |-> t, end |-> t + BLOCK_MINUTES])
    \/ /\ max_minutes_per_day # None
       /\ DayMinutes(Day(t)) + BLOCK_MINUTES > max_minutes_per_day

\* C15: with cram mode off, if a task that is not overdue is returned with
\* fewer minutes than its estimate, then every slot of the horizon that
\* starts before its deadline is overlapped by a block or lies on a day
\* whose flexible minutes plus one granularity unit exceed the cap; a day
\* at its cap does not end the scan of the later days.
C15_WorkConservingWithoutCram ==
    pc = "done" /\ ~args.cram_or_not =>
        \A k \in DOMAIN todos :
            Unfinished(k) =>
                \A i \in DOMAIN Slots :
                    Slots[i] < todos[k].deadline => SlotUnusable(Slots[i])

\* returned without cram mode: an unfinished task has blocks on a day at
\* its cap and on a later day
C15_Witness ==
    /\ pc = "done"
    /\ ~args.cram_or_not
    /\ max_minutes_per_day # None
    /\ \E k \in DOMAIN todos :
          /\ Unfinished(k)
          /\ \E i, j \in TodoIdx :
                /\ blocks[i].task = k
                /\ blocks[j].task = k
                /\ Day(blocks[i].start) < Day(blocks[j].start)
                /\ DayMinutes(Day(blocks[i].start)) = max_minutes_per_day

(***************************************************************************)
(* C16: the processing order is the order of one sort on two keys          *)
(***************************************************************************)
\* input task a goes before input task b in a sort on (priority, deadline)
\* that keeps the input order of equal tasks
GoesBefore(ts, a, b) ==
    \/ ts[a].priority < ts[b].priority
    \/ ts[a].priority = ts[b].priority /\ ts[a].deadline < ts[b].deadline
    \/ ts[a].priority = ts[b].priority /\ ts[a].deadline = ts[b].deadline /\ a < b

\* the orders of the input list that such a sort can return
SortedOnBothKeys(ts) ==
    {p \in [DOMAIN ts -> DOMAIN ts] :
        \A m, n \in DOMAIN ts : m < n => GoesBefore(ts, p[m], p[n])}

\* C16: the tasks are processed by ascending priority number, tasks of
\* equal priority number by ascending deadline, tasks equal in both in
\* their input order: the processing list is the input list in the one
\* order that a single stable sort on (priority, deadline) returns.
C16_OrderOfOneSortOnPriorityThenDeadline ==
    Started =>
        \E p \in SortedOnBothKeys(parsed.todos) :
            todos = [k \in DOMAIN parsed.todos |-> parsed.todos[p[k]]]

\* three tasks are being processed: the input had a larger priority number
\* before a smaller one, and equal priority numbers with the later deadline
\* first
C16_Witness ==
    /\ Started
    /\ Len(todos) = 3
    /\ \E a, b \in DOMAIN parsed.todos :
          a < b /\ parsed.todos[a].priority > parsed.todos[b].priority
    /\ \E a, b \in DOMAIN parsed.todos :
          /\ a < b
          /\ parsed.todos[a].priority = parsed.todos[b].priority
          /\ parsed.todos[a].deadline > parsed.todos[b].deadline

(***************************************************************************)
(* C17: the default duration and the frame of the input                    *)
(***************************************************************************)
HasDuration(t) == t.estimated_time_minutes # None /\ t.estimated_time_minutes > 0

\* a step leaves the two input lists as they are, but for the duration of a
\* task that has none, which becomes 120
InputFrame ==
    /\ parsed'.fixed_events = parsed.fixed_events
    /\ DOMAIN parsed'.todos = DOMAIN parsed.todos
    /\ \A i \in DOMAIN parsed.todos :
          /\ parsed'.todos[i].title = parsed.todos[i].title
          /\ parsed'.todos[i].deadline = parsed.todos[i].deadline
          /\ parsed'.todos[i].priority = parsed.todos[i].priority
          /\ parsed'.todos[i].exam_or_not = parsed.todos[i].exam_or_not
          /\ parsed'.todos[i].estimated_time_minutes =
                IF HasDuration(parsed.todos[i])
                THEN parsed.todos[i].estimated_time_minutes
                ELSE 120

\* the task in the slot loop is scheduled against the duration that its
\* input record now holds
ScheduledAgainstDuration ==
    pc = "for_slot" =>
        /\ HasDuration(todo)
        /\ \E i \in DOMAIN parsed.todos : parsed.todos[i] = todo
        /\ remaining + TaskMinutes(todo_idx) = todo.estimated_time_minutes

\* C17: a task whose duration is absent or not positive is scheduled as if
\* its duration were 120 minutes, a positive duration is kept, and no step
\* of build_schedule changes anything else in the input: every other field
\* of every task, every fixed event and the order of both lists stay.
C17_DefaultDurationAndInputFrame ==
    /\ [][InputFrame]_vars
    /\ []ScheduledAgainstDuration

\* returned: the first input task holds the default duration and has
\* exactly 120 minutes of blocks, the second holds its own 30 and has them
C17_Witness ==
    /\ pc = "done"
    /\ Len(parsed.todos) = 2
    /\ parsed.todos[1].estimated_time_minutes = 120
    /\ parsed.todos[2].estimated_time_minutes = 30
    /\ \E k \in DOMAIN todos : todos[k].title = "A" /\ TaskMinutes(k) = 120
    /\ \E k \in DOMAIN todos : todos[k].title = "B" /\ TaskMinutes(k) = 30
    /\ Len(parsed.fixed_events) = 1

(***************************************************************************)
(* C18: a block is committed only into free time                           *)
(***************************************************************************)
\* the step appends a block to the list
Commits == pc = "for_slot" /\ Len(blocks') = Len(blocks) + 1

\* C18: the block appended by a commit overlaps no block that the list
\* held at that moment, and so the returned list has no flexible block
\* overlapping a fixed block or another flexible block, also when the
\* fixed events overlap one another.
C18_CommittedIntoFreeTime ==
    /\ [][Commits =>
            /\ blocks'[Len(blocks')].kind = "todo"
            /\ \A i \in DOMAIN blocks :
                  /\ blocks'[i] = blocks[i]
                  /\ ~Intersect(blocks[i], blocks'[Len(blocks')])]_vars
    /\ [](pc = "done" =>
            \A i \in TodoIdx : \A j \in DOMAIN blocks :
                i # j => ~Intersect(blocks[i], blocks[j]))

\* a block has just been committed behind an earlier flexible block and
\* two fixed blocks that overlap each other
C18_Witness ==
    /\ pc = "for_slot"
    /\ blocks # <<>>
    /\ blocks[Len(blocks)].kind = "todo"
    /\ blocks[Len(blocks)].start = Slots[slot_idx - 1]
    /\ \E i, j \in FixedIdx : i # j /\ Intersect(blocks[i], blocks[j])
    /\ \E i \in TodoIdx : i < Len(blocks)

(***************************************************************************)
(* C19: the minutes placed with cram mode on and off                       *)
(***************************************************************************)
\* C19 as claimed: for one exam task that is not overdue, the minutes
\* committed with cram mode on equal the minutes committed with cram mode
\* off, whatever the daily cap and window.
C19_CramPlacesTheSameMinutes ==
    PairDone /\ SingleExamTask => OnMinutes = OffMinutes

\* cram mode never places more than the greedy placement does
CramPlacesNoMore == PairDone /\ SingleExamTask => OnMinutes <= OffMinutes

====
